---- MODULE Spec2Model ----
(***************************************************************************)
(* seqan3::qualified<sequence_alphabet_t, quality_alphabet_t>              *)
(* (include/seqan3/alphabet/quality/qualified.hpp), instantiated as        *)
(* qualified<dna4, phred42>.                                               *)
(*                                                                         *)
(* A letter of a component alphabet is represented by its rank.  A         *)
(* qualified value is the tuple <<sequence letter, quality letter>> that   *)
(* the cartesian_composition base stores; get<0> / get<1> are its slots.   *)
(***************************************************************************)
EXTENDS Integers, Sequences, FiniteSets, TLC

(***************************************************************************)
(* Component alphabets: dna4 and phred42.                                  *)
(***************************************************************************)
dna4_size == 4

phred42_size == 42

phred42_offset_phred == 0

Dna4 == 0 .. (dna4_size - 1)

Phred42 == 0 .. (phred42_size - 1)

dna4_chars == <<"A", "C", "G", "T">>

\* characters handed to assign_char; "N" is outside the dna4 character domain
CharInputs == {"A", "C", "G", "T", "a", "c", "g", "t", "N"}

\* slack of the phred inputs handed to assign_phred around the valid range
PhredSlack == 2

PhredInputs == (phred42_offset_phred - PhredSlack) .. (phred42_offset_phred + phred42_size - 1 + PhredSlack)

dna4_to_char(s) == dna4_chars[s + 1]

dna4_assign_char(c) ==
    CASE c \in {"A", "a"} -> 0
      [] c \in {"C", "c"} -> 1
      [] c \in {"G", "g"} -> 2
      [] c \in {"T", "t"} -> 3
      [] OTHER -> 0

dna4_complement(s) == (dna4_size - 1) - s

phred42_to_phred(q) == q + phred42_offset_phred

phred42_assign_phred(p) ==
    IF p - phred42_offset_phred < 0 THEN 0
    ELSE IF p - phred42_offset_phred > phred42_size - 1 THEN phred42_size - 1
    ELSE p - phred42_offset_phred

\* relational operators of a component alphabet compare ranks
letter_eq(x, y) == x = y

letter_ne(x, y) == x # y

letter_lt(x, y) == x < y

letter_gt(x, y) == x > y

letter_le(x, y) == x <= y

letter_ge(x, y) == x >= y

(***************************************************************************)
(* cartesian_composition<qualified, dna4, phred42>: the base type.         *)
(***************************************************************************)
Qualified == Dna4 \X Phred42

composition_size == dna4_size * phred42_size

Ranks == 0 .. (composition_size - 1)

get0(t) == t[1]

get1(t) == t[2]

construct(s, q) == <<s, q>>

\* mutation: position 0 taken as the least significant digit
to_rank_least_significant_first(t) == get0(t) + get1(t) * dna4_size

\* mixed-radix encoding, position 0 is the most significant digit
to_rank(t) == get0(t) * phred42_size + get1(t)

\* mutation: the digits of the rank handed to the wrong slots
assign_rank_swapped(r) == <<r % dna4_size, (r \div dna4_size) % phred42_size>>

assign_rank(r) == <<r \div phred42_size, r % phred42_size>>

\* writing one slot through the reference returned by get<i>
set0(t, s) == <<s, get1(t)>>

set1(t, q) == <<get0(t), q>>

composite_eq(x, y) == to_rank(x) = to_rank(y)

composite_ne(x, y) == to_rank(x) # to_rank(y)

\* mutation: only slot 0 compared
composite_lt_slot0(x, y) == get0(x) < get0(y)

composite_lt(x, y) == to_rank(x) < to_rank(y)

composite_gt(x, y) == to_rank(x) > to_rank(y)

composite_le(x, y) == to_rank(x) <= to_rank(y)

composite_ge(x, y) == to_rank(x) >= to_rank(y)

(***************************************************************************)
(* qualified: write functions.                                             *)
(***************************************************************************)
assign_sequence_letter(t, letter) == set0(t, letter)

\* mutation: the letter converted to a whole composite before the assignment
assign_quality_letter_whole(t, letter) == construct(0, letter)

assign_quality_letter(t, letter) == set1(t, letter)

\* mutation: the converted letter assigned as the rank of the whole composite
assign_char_as_rank(t, c) == assign_rank(dna4_assign_char(c))

assign_char(t, c) == set0(t, dna4_assign_char(c))

assign_phred(t, p) == set1(t, phred42_assign_phred(p))

(***************************************************************************)
(* qualified: read functions.                                              *)
(***************************************************************************)
\* mutation: the wrong slot read
to_phred_slot0(t) == phred42_to_phred(get0(t))

to_phred(t) == phred42_to_phred(get1(t))

\* mutation: the composite's rank read instead of slot 0
to_char_of_rank(t) == dna4_to_char(to_rank(t) % dna4_size)

to_char(t) == dna4_to_char(get0(t))

\* mutation: the sequence letter copied, not complemented
complement_copy(t) == construct(get0(t), get1(t))

\* mutation: the quality letter not passed on
complement_default_quality(t) == construct(dna4_complement(get0(t)), 0)

complement(t) == construct(dna4_complement(get0(t)), get1(t))

(***************************************************************************)
(* qualified: comparison against a bare sequence letter (member operators, *)
(* composite on the left).                                                 *)
(***************************************************************************)
member_eq_sequence(this, rhs) == letter_eq(get0(this), rhs)

member_ne_sequence(this, rhs) == letter_ne(get0(this), rhs)

\* mutation: the composite's rank compared instead of slot 0
member_lt_sequence_by_rank(this, rhs) == letter_lt(to_rank(this), rhs)

member_lt_sequence(this, rhs) == letter_lt(get0(this), rhs)

member_gt_sequence(this, rhs) == letter_gt(get0(this), rhs)

member_le_sequence(this, rhs) == letter_le(get0(this), rhs)

member_ge_sequence(this, rhs) == letter_ge(get0(this), rhs)

(***************************************************************************)
(* qualified: friend operators, sequence letter on the left.  Each one     *)
(* calls the member operator the source names in its return statement.     *)
(***************************************************************************)
friend_eq_sequence(lhs, rhs) == member_eq_sequence(rhs, lhs)

friend_ne_sequence(lhs, rhs) == member_ne_sequence(rhs, lhs)

friend_lt_sequence(lhs, rhs) == member_gt_sequence(rhs, lhs)

\* mutation: the operands swapped but the operator kept
friend_gt_sequence_unswapped(lhs, rhs) == member_gt_sequence(rhs, lhs)

friend_gt_sequence(lhs, rhs) == member_lt_sequence(rhs, lhs)

friend_le_sequence(lhs, rhs) == member_ge_sequence(rhs, lhs)

friend_ge_sequence(lhs, rhs) == member_le_sequence(rhs, lhs)

(***************************************************************************)
(* qualified: comparison against a bare quality letter (member operators). *)
(***************************************************************************)
member_eq_quality(this, rhs) == letter_eq(get1(this), rhs)

member_ne_quality(this, rhs) == letter_ne(get1(this), rhs)

member_lt_quality(this, rhs) == letter_lt(get1(this), rhs)

member_gt_quality(this, rhs) == letter_gt(get1(this), rhs)

member_le_quality(this, rhs) == letter_le(get1(this), rhs)

member_ge_quality(this, rhs) == letter_ge(get1(this), rhs)

(***************************************************************************)
(* qualified: friend operators, quality letter on the left.                *)
(***************************************************************************)
friend_eq_quality(lhs, rhs) == member_eq_quality(rhs, lhs)

friend_ne_quality(lhs, rhs) == member_ne_quality(rhs, lhs)

\* mutation: the operands swapped but the operator kept
friend_lt_quality_unswapped(lhs, rhs) == member_lt_quality(rhs, lhs)

friend_lt_quality(lhs, rhs) == member_gt_quality(rhs, lhs)

friend_gt_quality(lhs, rhs) == member_lt_quality(rhs, lhs)

friend_le_quality(lhs, rhs) == member_ge_quality(rhs, lhs)

friend_ge_quality(lhs, rhs) == member_le_quality(rhs, lhs)

(***************************************************************************)
(* The six results of one relational call, in the order the source         *)
(* declares the operators.                                                 *)
(***************************************************************************)
member_sequence(this, rhs) ==
    [eq |-> member_eq_sequence(this, rhs), ne |-> member_ne_sequence(this, rhs),
     lt |-> member_lt_sequence(this, rhs), gt |-> member_gt_sequence(this, rhs),
     le |-> member_le_sequence(this, rhs), ge |-> member_ge_sequence(this, rhs)]

friend_sequence(lhs, rhs) ==
    [eq |-> friend_eq_sequence(lhs, rhs), ne |-> friend_ne_sequence(lhs, rhs),
     lt |-> friend_lt_sequence(lhs, rhs), gt |-> friend_gt_sequence(lhs, rhs),
     le |-> friend_le_sequence(lhs, rhs), ge |-> friend_ge_sequence(lhs, rhs)]

member_quality(this, rhs) ==
    [eq |-> member_eq_quality(this, rhs), ne |-> member_ne_quality(this, rhs),
     lt |-> member_lt_quality(this, rhs), gt |-> member_gt_quality(this, rhs),
     le |-> member_le_quality(this, rhs), ge |-> member_ge_quality(this, rhs)]

friend_quality(lhs, rhs) ==
    [eq |-> friend_eq_quality(lhs, rhs), ne |-> friend_ne_quality(lhs, rhs),
     lt |-> friend_lt_quality(lhs, rhs), gt |-> friend_gt_quality(lhs, rhs),
     le |-> friend_le_quality(lhs, rhs), ge |-> friend_ge_quality(lhs, rhs)]

composite_compare(x, y) ==
    [eq |-> composite_eq(x, y), ne |-> composite_ne(x, y),
     lt |-> composite_lt(x, y), gt |-> composite_gt(x, y),
     le |-> composite_le(x, y), ge |-> composite_ge(x, y)]

(***************************************************************************)
(* State.                                                                  *)
(*   l    the qualified object the calls are made on                       *)
(*   ret  the last call on l: its name, its argument, the object before    *)
(*        the call and the value the call returned                         *)
(*   a, b two qualified operands of a relational expression                *)
(*   cmp  the last relational expression evaluated on a and b              *)
(***************************************************************************)
VARIABLES l, ret, a, b, cmp

vars == <<l, ret, a, b, cmp>>

NoCompare == [op |-> "none"]

\* qualified<dna4, phred42> l{s, q};
Init ==
    /\ \E s \in Dna4, q \in Phred42 :
         /\ l = construct(s, q)
         /\ ret = [op |-> "construct", arg |-> <<s, q>>, pre |-> construct(s, q), val |-> construct(s, q)]
    /\ a = construct(0, 0)
    /\ b = construct(0, 0)
    /\ cmp = NoCompare

\* l = letter;  (sequence letter)
AssignSequenceLetter ==
    /\ \E letter \in Dna4 :
         /\ l' = assign_sequence_letter(l, letter)
         /\ ret' = [op |-> "assign_sequence_letter", arg |-> letter, pre |-> l,
                    val |-> assign_sequence_letter(l, letter)]
    /\ UNCHANGED <<a, b, cmp>>

\* l = letter;  (quality letter)
AssignQualityLetter ==
    /\ \E letter \in Phred42 :
         /\ l' = assign_quality_letter(l, letter)
         /\ ret' = [op |-> "assign_quality_letter", arg |-> letter, pre |-> l,
                    val |-> assign_quality_letter(l, letter)]
    /\ UNCHANGED <<a, b, cmp>>

\* l.assign_char(c);
AssignChar ==
    /\ \E c \in CharInputs :
         /\ l' = assign_char(l, c)
         /\ ret' = [op |-> "assign_char", arg |-> c, pre |-> l, val |-> assign_char(l, c)]
    /\ UNCHANGED <<a, b, cmp>>

\* l.assign_phred(p);
AssignPhred ==
    /\ \E p \in PhredInputs :
         /\ l' = assign_phred(l, p)
         /\ ret' = [op |-> "assign_phred", arg |-> p, pre |-> l, val |-> assign_phred(l, p)]
    /\ UNCHANGED <<a, b, cmp>>

\* auto & [seq_l, qual_l] = l;  seq_l = letter;
WriteSlot0 ==
    /\ \E letter \in Dna4 :
         /\ l' = set0(l, letter)
         /\ ret' = [op |-> "write_slot0", arg |-> letter, pre |-> l, val |-> letter]
    /\ UNCHANGED <<a, b, cmp>>

\* auto & [seq_l, qual_l] = l;  qual_l = letter;
WriteSlot1 ==
    /\ \E letter \in Phred42 :
         /\ l' = set1(l, letter)
         /\ ret' = [op |-> "write_slot1", arg |-> letter, pre |-> l, val |-> letter]
    /\ UNCHANGED <<a, b, cmp>>

\* l.assign_rank(r);
AssignRank ==
    /\ \E r \in Ranks :
         /\ l' = assign_rank(r)
         /\ ret' = [op |-> "assign_rank", arg |-> r, pre |-> l, val |-> assign_rank(r)]
    /\ UNCHANGED <<a, b, cmp>>

\* to_rank(l)
ToRank ==
    /\ ret' = [op |-> "to_rank", arg |-> <<>>, pre |-> l, val |-> to_rank(l)]
    /\ UNCHANGED <<l, a, b, cmp>>

\* l.to_char()
ToChar ==
    /\ ret' = [op |-> "to_char", arg |-> <<>>, pre |-> l, val |-> to_char(l)]
    /\ UNCHANGED <<l, a, b, cmp>>

\* l.to_phred()
ToPhred ==
    /\ ret' = [op |-> "to_phred", arg |-> <<>>, pre |-> l, val |-> to_phred(l)]
    /\ UNCHANGED <<l, a, b, cmp>>

\* l.complement()
Complement ==
    /\ ret' = [op |-> "complement", arg |-> <<>>, pre |-> l, val |-> complement(l)]
    /\ UNCHANGED <<l, a, b, cmp>>

Next ==
    \/ AssignSequenceLetter
    \/ AssignQualityLetter
    \/ AssignChar
    \/ AssignPhred
    \/ WriteSlot0
    \/ WriteSlot1
    \/ AssignRank
    \/ ToRank
    \/ ToChar
    \/ ToPhred
    \/ Complement

Spec == Init /\ [][Next]_vars

(***************************************************************************)
(* Write functions only: a qualified value is constructed and then any     *)
(* sequence of operator=(sequence letter), assign_char, operator=(quality  *)
(* letter) and assign_phred is applied to it.                              *)
(***************************************************************************)
NextWrites ==
    \/ AssignSequenceLetter
    \/ AssignChar
    \/ AssignQualityLetter
    \/ AssignPhred

SpecWrites == Init /\ [][NextWrites]_vars

(***************************************************************************)
(* Relational expressions: the operands are drawn, then one expression is  *)
(* evaluated on them.                                                      *)
(***************************************************************************)
InitCmp ==
    /\ l = construct(0, 0)
    /\ ret = [op |-> "construct", arg |-> <<0, 0>>, pre |-> construct(0, 0), val |-> construct(0, 0)]
    /\ a \in Qualified
    /\ b \in Qualified
    /\ cmp = NoCompare

\* a op b, for the six inherited operators
CompareComposite ==
    /\ cmp.op = "none"
    /\ cmp' = [op |-> "composite", ab |-> composite_compare(a, b), ba |-> composite_compare(b, a)]
    /\ UNCHANGED <<l, ret, a, b>>

\* a op x, b op x, x op a and x op b, for a sequence letter x
CompareSequence ==
    /\ cmp.op = "none"
    /\ \E x \in Dna4 :
         cmp' = [op |-> "sequence", x |-> x,
                 ma |-> member_sequence(a, x), mb |-> member_sequence(b, x),
                 fa |-> friend_sequence(x, a), fb |-> friend_sequence(x, b)]
    /\ UNCHANGED <<l, ret, a, b>>

\* a op x, b op x, x op a and x op b, for a quality letter x
CompareQuality ==
    /\ cmp.op = "none"
    /\ \E x \in Phred42 :
         cmp' = [op |-> "quality", x |-> x,
                 ma |-> member_quality(a, x), mb |-> member_quality(b, x),
                 fa |-> friend_quality(x, a), fb |-> friend_quality(x, b)]
    /\ UNCHANGED <<l, ret, a, b>>

NextCmp ==
    \/ CompareComposite
    \/ CompareSequence
    \/ CompareQuality

SpecCmp == InitCmp /\ [][NextCmp]_vars

(***************************************************************************)
(* Properties.                                                             *)
(***************************************************************************)
lexicographic_lt(x, y) ==
    \/ get0(x) < get0(y)
    \/ get0(x) = get0(y) /\ get1(x) < get1(y)

reversed(r) ==
    [eq |-> r.eq, ne |-> r.ne, lt |-> r.gt, gt |-> r.lt, le |-> r.ge, ge |-> r.le]

C2_RankBijection ==
    /\ to_rank(l) \in Ranks
    /\ assign_rank(to_rank(l)) = l
    /\ \A c \in Qualified : to_rank(c) = to_rank(l) => c = l
    /\ ret.op = "assign_rank" => (l \in Qualified /\ to_rank(l) = ret.arg)

C2_Witness == ret.op = "assign_rank" /\ ret.arg = composition_size - 1 /\ l = construct(3, 41)

\* C3: a write that targets one slot leaves the other slot unchanged:
\* operator=(sequence letter) and assign_char keep slot 1, operator=(quality
\* letter) and assign_phred keep slot 0; assigning the quality letter of
\* phred 41 into (A, 7) gives (A, 41), of rank 41.
C3_WriteFrame ==
    /\ ret.op \in {"assign_sequence_letter", "assign_char"} => get1(l) = get1(ret.pre)
    /\ ret.op \in {"assign_quality_letter", "assign_phred"} => get0(l) = get0(ret.pre)
    /\ (ret.op = "assign_quality_letter" /\ ret.pre = construct(0, 7)
           /\ ret.arg = phred42_assign_phred(41))
         => (l = construct(0, 41) /\ to_rank(l) = 41)

C3_Witness ==
    /\ ret.op = "assign_quality_letter"
    /\ ret.pre = construct(0, 7)
    /\ ret.arg = phred42_assign_phred(41)
    /\ l = construct(0, 41)

\* C4: a comparison against a component value reads only that component's
\* slot: two qualified values with the same slot 0 give the same six results
\* against any sequence letter, and two values with the same slot 1 give the
\* same six results against any quality letter.
C4_CrossCompareReadsOneSlot ==
    /\ (cmp.op = "sequence" /\ get0(a) = get0(b)) => cmp.ma = cmp.mb
    /\ (cmp.op = "quality" /\ get1(a) = get1(b)) => cmp.ma = cmp.mb

C4_Witness ==
    /\ cmp.op = "sequence"
    /\ get0(a) = get0(b)
    /\ get1(a) # get1(b)
    /\ cmp.ma.lt
    /\ cmp.mb.lt

C6_ComplementFrame ==
    ret.op = "complement" =>
        /\ get0(ret.val) = dna4_complement(get0(ret.pre))
        /\ get1(ret.val) = get1(ret.pre)
        /\ l = ret.pre
        /\ ret.pre = construct(0, 7) => ret.val = construct(3, 7)

C6_Witness == ret.op = "complement" /\ ret.pre = construct(0, 7) /\ ret.val = construct(3, 7)

\* C7: complement is an involution: complementing the value complement()
\* returned gives a value equal (same rank) to the original.
C7_ComplementInvolution ==
    ret.op = "complement" =>
        /\ composite_eq(complement(ret.val), ret.pre)
        /\ to_rank(complement(ret.val)) = to_rank(ret.pre)

C7_Witness == ret.op = "complement" /\ ret.pre = construct(1, 30) /\ ret.val = construct(2, 30)

\* C8: after construction and any writes, to_char() is the sequence
\* alphabet's to_char of the current slot 0 and to_phred() the quality
\* alphabet's to_phred of the current slot 1; with G in slot 0, to_char is G.
C8_Delegation ==
    /\ ret.op = "to_char" => ret.val = dna4_to_char(get0(l))
    /\ ret.op = "to_phred" => ret.val = phred42_to_phred(get1(l))
    /\ (ret.op = "to_char" /\ get0(l) = 2) => ret.val = "G"

C8_Witness == ret.op = "to_char" /\ l = construct(2, 7) /\ ret.val = "G"

\* C9: comparison of two qualified values is the order of their ranks and
\* the lexicographic order of their slot tuples, equality is equality of
\* both slots, and exactly one of a < b, a == b, a > b holds.
C9_CompositeOrder ==
    cmp.op = "composite" =>
        /\ cmp.ab.lt <=> to_rank(a) < to_rank(b)
        /\ cmp.ab.lt <=> lexicographic_lt(a, b)
        /\ cmp.ab.gt <=> lexicographic_lt(b, a)
        /\ cmp.ab.eq <=> (get0(a) = get0(b) /\ get1(a) = get1(b))
        /\ cmp.ab.ne <=> ~cmp.ab.eq
        /\ cmp.ab.le <=> ~cmp.ab.gt
        /\ cmp.ab.ge <=> ~cmp.ab.lt
        /\ Cardinality({r \in {"lt", "eq", "gt"} : cmp.ab[r]}) = 1
        /\ cmp.ba = reversed(cmp.ab)

C9_Witness ==
    /\ cmp.op = "composite"
    /\ get0(a) < get0(b)
    /\ get1(a) > get1(b)
    /\ cmp.ab.lt

C12_LastWriterWins ==
    /\ to_rank(l) \in Ranks
    /\ l \in Qualified
    /\ ret.op = "assign_sequence_letter" => l = construct(ret.arg, get1(ret.pre))
    /\ ret.op = "assign_char" => l = construct(dna4_assign_char(ret.arg), get1(ret.pre))
    /\ ret.op = "assign_quality_letter" => l = construct(get0(ret.pre), ret.arg)
    /\ ret.op = "assign_phred" => l = construct(get0(ret.pre), phred42_assign_phred(ret.arg))
    /\ \A s \in Dna4, q \in Phred42 :
         /\ assign_quality_letter(assign_sequence_letter(l, s), q)
              = assign_sequence_letter(assign_quality_letter(l, q), s)
         /\ assign_sequence_letter(assign_quality_letter(assign_sequence_letter(l, get0(l)), q), s)
              = construct(s, q)
    /\ \A c \in CharInputs, p \in PhredInputs :
         /\ assign_phred(assign_char(l, c), p) = assign_char(assign_phred(l, p), c)
         /\ assign_char(assign_phred(assign_char(l, "A"), p), c)
              = construct(dna4_assign_char(c), phred42_assign_phred(p))
    /\ \A c \in CharInputs, q \in Phred42 :
         assign_quality_letter(assign_char(l, c), q) = assign_char(assign_quality_letter(l, q), c)
    /\ \A s \in Dna4, p \in PhredInputs :
         /\ assign_phred(assign_sequence_letter(l, s), p) = assign_sequence_letter(assign_phred(l, p), s)
         /\ assign_phred(assign_sequence_letter(assign_phred(l, 0), s), p)
              = construct(s, phred42_assign_phred(p))

C12_Witness ==
    /\ ret.op = "assign_char"
    /\ ret.arg = "g"
    /\ ret.pre = construct(3, 41)
    /\ l = construct(2, 41)
    /\ to_rank(l) = 2 * phred42_size + 41

====
